---- MODULE Spec2Model ----
(***************************************************************************)
(* raygun4go: the client facade (New, the option setters, HandleError,     *)
(* Submit) and the delivery engine (submitCore), as a state machine.       *)
(*                                                                         *)
(* One host thread (the "caller") uses one client.  Every call of Submit   *)
(* is recorded in subs, every execution of submitCore (on the caller or on *)
(* a goroutine started by Submit) in cores.  The remote endpoint and the   *)
(* transport are the environment: they answer a pending POST with a        *)
(* status, fail it, or never answer.                                       *)
(*                                                                         *)
(* Spec is the delivery of reports.  SpecReport is the assembly of the     *)
(* payload by the entry points of a configured client, SpecClone the       *)
(* clones and the setters, SpecHandlers the concurrent request handlers    *)
(* that each work on a clone, SpecParse the parser of raw stack dumps,     *)
(* SpecFunctions single calls of the functions of the parser and of the    *)
(* request snapshot.  The objects of the host that a client only refers    *)
(* to (its request, the array of its tags) are kept in heap.               *)
(***************************************************************************)
EXTENDS Integers, Sequences, FiniteSets, TLC

VARIABLES
    c,              \* the host's *Client, as returned by New
    lastNew,        \* arguments and results of the latest call of New
    raygunEndpoint, \* the package variable raygunEndpoint
    pc,             \* where the caller is
    panicValue,     \* the value of the panic in flight on the caller
    ret,            \* the latest public call that returned to the caller
    subs,           \* the calls of Submit, in call order
    cores,          \* the executions of submitCore, in start order
    stdout,         \* what fmt.Println has written
    logOut,         \* what log.Println has written
    handlers,       \* the request handlers of the host and their clones
    calls,          \* the calls on record of the entry points that assemble
                    \* a payload, of Clone and of the setters
    parsing,        \* a raw stack dump and the StackTrace Parse fills
    heap            \* the objects of the host that a client refers to: the
                    \* requests ParseForm has run on, the array of the
                    \* host's tags and the clients whose Tags share it

\* what New, the delivery engine and the transport leave alone
aside == <<handlers, calls, parsing, heap>>

vars == <<c, lastNew, raygunEndpoint, pc, panicValue, ret, subs, cores,
          stdout, logOut, handlers, calls, parsing, heap>>

----------------------------------------------------------------------------
(* Bounds of the model *)

\* the number of Submit calls (direct or through HandleError) in one run
MaxSubmits == 1

----------------------------------------------------------------------------
(* Values *)

\* a Go error value is nil or carries its message
NilError == <<>>
errors_New(text) == <<text>>
ErrorText(err) == err[1]

\* An error value made by the host carries also its dynamic type and, when
\* it has a Stack() method, the dump that method returns; it is a different
\* value from every error the library makes with errors.New.
GoErrorsType == "*goerrors.Error"
HostError(text, type) == <<text, type>>
HostTracedError(text, type, dump) == <<text, type, dump>>
HasStackMethod(err) == Len(err) = 3
ErrorType(err) == IF Len(err) = 1 THEN "*errors.errorString" ELSE err[2]
ErrorStack(err) == err[3]

AppNames == {"", "app"}
ApiKeys == {"", "key"}
\* what uuid.New() can return
Identifiers == {"uuid-1"}
\* raygunEndpoint: the default, and a value http.NewRequest cannot parse
DefaultEndpoint == "https://api.raygun.com"
MalformedEndpoint == "%zz"
Endpoints == {DefaultEndpoint, MalformedEndpoint}
\* statuses the remote endpoint answers with
StatusCodes == {200, 202, 500}
\* custom data: absent (json encodes it), or a Go channel (json cannot)
NilData == "nil"
ChanData == "chan int"
CustomDataValues == {NilData, ChanData}
NilRequest == [isNil |-> TRUE]
NilFunc == "nil"

\* a request of the host: the fields of *http.Request that are read, the
\* key-to-value-list mappings as functions (none: the empty function)
\* PostForm is what r.PostForm holds once r.ParseForm() has run.  SomeRequest
\* is a POST of a form.
FormContentType == "application/x-www-form-urlencoded"
SomeRequest ==
    [ Host |-> "example.com", URL |-> "/path?q=1", Method |-> "POST",
      RemoteAddr |-> "10.0.0.1:4711",
      Query |-> [k \in {"q"} |-> <<"1">>],
      PostForm |-> [k \in {"a"} |-> <<"1">>],
      Header |-> [k \in {"Accept", "Content-Type"} |->
                    IF k = "Accept" THEN <<"text/html", "text/plain">>
                    ELSE <<FormContentType>>] ]
\* a GET, which has no body
QueryRequest ==
    [ Host |-> "example.com", URL |-> "/search?q=go", Method |-> "GET",
      RemoteAddr |-> "10.0.0.2:4712",
      Query |-> [k \in {"q"} |-> <<"go">>],
      PostForm |-> <<>>,
      Header |-> [k \in {"Accept"} |-> <<"text/html">>] ]
Requests == {NilRequest, SomeRequest, QueryRequest}
Versions == {"", "1.0.0"}
\* tags the host passes to Tags: none, or its slice hostTags
HostTags == <<"web", "eu">>
TagsValues == {<<>>, HostTags}
Users == {"", "user-1"}
\* grouping-key callbacks of the host: none, one that returns a key, one
\* that returns the empty string
GroupingKeyFuncs == {NilFunc, "constKey", "emptyKey"}

\* values a panic can carry: an error, a string, a value of another type
NoPanic == [type |-> "none", val |-> ""]
PanicValues ==
    { [type |-> "error", val |-> "EOF"],
      [type |-> "string", val |-> "boom"],
      [type |-> "int", val |-> "42"] }

NoClient == [isNil |-> TRUE]
NoBytes == [isNil |-> TRUE]

\* strings.Split(s, sep) for a separator of one character: the texts
\* between the places of the separator
strings_Split(s, sep) ==
    LET places == { i \in 1..Len(s) : SubSeq(s, i, i) = sep }
        n == Cardinality(places)
        place(k) == IF k = 0 THEN 0
                    ELSE IF k = n + 1 THEN Len(s) + 1
                    ELSE CHOOSE p \in places :
                           Cardinality({ q \in places : q < p }) = k - 1
    IN  [ k \in 1..(n + 1) |-> SubSeq(s, place(k - 1) + 1, place(k) - 1) ]

\* strings.Join(parts, sep)
RECURSIVE strings_Join(_, _)
strings_Join(parts, sep) ==
    IF parts = <<>> THEN ""
    ELSE IF Len(parts) = 1 THEN parts[1]
    ELSE parts[1] \o sep \o strings_Join(Tail(parts), sep)

----------------------------------------------------------------------------
(* Client and context *)

contextInformation(identifier) ==
    [ Request |-> NilRequest, Version |-> "", Tags |-> <<>>,
      CustomData |-> NilData, User |-> "",
      GetCustomGroupingKey |-> NilFunc, identifier |-> identifier ]

Client(appName, apiKey, context, silent, logToStdOut, asynchronous) ==
    [ appName |-> appName, apiKey |-> apiKey, context |-> context,
      silent |-> silent, logToStdOut |-> logToStdOut,
      asynchronous |-> asynchronous ]

\* New, rejecting only the pair of two empty strings
NewResult_BothEmpty(appName, apiKey, identifier) ==
    LET context == contextInformation(identifier)
    IN  IF appName = "" /\ apiKey = ""
        THEN [c |-> NoClient, err |-> errors_New("appName and apiKey are required")]
        ELSE [c |-> Client(appName, apiKey, context, FALSE, FALSE, FALSE),
              err |-> NilError]

\* New: the pair (c, err) it returns
NewResult(appName, apiKey, identifier) ==
    LET context == contextInformation(identifier)
    IN  IF appName = "" \/ apiKey = ""
        THEN [c |-> NoClient, err |-> errors_New("appName and apiKey are required")]
        ELSE [c |-> Client(appName, apiKey, context, FALSE, FALSE, FALSE),
              err |-> NilError]

----------------------------------------------------------------------------
(* Payload assembly *)

\* the package constant packageVersion; its value is not part of these sources
packageVersion == "packageVersion"

StackTraceElement(lineNumber, packageName, fileName, methodName) ==
    [ LineNumber |-> lineNumber, PackageName |-> packageName,
      FileName |-> fileName, MethodName |-> methodName ]

\* the frames runtime.Stack reports, parsed by Current, when the entry point
\* entry of the client captures the stack: innermost first
CurrentFrames(entry) ==
    <<StackTraceElement("36", "github.com/MindscapeHQ/raygun4go", "stack2struct.go", "Current"),
      StackTraceElement("80", "github.com/MindscapeHQ/raygun4go", "request_data.go", "currentStack"),
      StackTraceElement("206", "github.com/MindscapeHQ/raygun4go", "raygun4go.go", "(*Client)." \o entry)>>
    \o (IF entry = "HandleError"
        THEN <<StackTraceElement("770", "", "panic.go", "panic")>>
        ELSE <<>>)
    \o <<StackTraceElement("42", "main", "main.go", "main")>>

\* currentStack, omitting the first 2 entries only
currentStack_SkipTwo(entry) ==
    LET s == CurrentFrames(entry)
    IN  SubSeq(s, 3, Len(s))

\* currentStack: the current stack without its first 3 entries
currentStack(entry) ==
    LET s == CurrentFrames(entry)
    IN  SubSeq(s, 4, Len(s))

\* Clone, giving the new client an identifier of its own
Client_Clone_NewIdentifier(client) ==
    LET contextInfoClone ==
            [ Request |-> client.context.Request,
              Version |-> client.context.Version,
              Tags |-> client.context.Tags,
              CustomData |-> client.context.CustomData,
              User |-> client.context.User,
              GetCustomGroupingKey |-> client.context.GetCustomGroupingKey,
              identifier |-> "uuid-2" ]
    IN  Client(client.appName, client.apiKey, contextInfoClone,
               client.silent, client.logToStdOut, client.asynchronous)

\* Clone: a new client with a copy of every field
Client_Clone(client) ==
    LET contextInfoClone ==
            [ Request |-> client.context.Request,
              Version |-> client.context.Version,
              Tags |-> client.context.Tags,
              CustomData |-> client.context.CustomData,
              User |-> client.context.User,
              GetCustomGroupingKey |-> client.context.GetCustomGroupingKey,
              identifier |-> client.context.identifier ]
    IN  Client(client.appName, client.apiKey, contextInfoClone,
               client.silent, client.logToStdOut, client.asynchronous)

\* the chainable setters: the client after the call
Client_Silent(client, s) == [client EXCEPT !.silent = s]
Client_LogToStdOut(client, l) == [client EXCEPT !.logToStdOut = l]
Client_Asynchronous(client, a) == [client EXCEPT !.asynchronous = a]
Client_Request(client, r) == [client EXCEPT !.context.Request = r]
Client_Version(client, v) == [client EXCEPT !.context.Version = v]
\* Tags, appending to the tags of the client
Client_Tags_Appending(client, tags) ==
    [client EXCEPT !.context.Tags = client.context.Tags \o tags]
Client_Tags(client, tags) == [client EXCEPT !.context.Tags = tags]
Client_CustomData(client, data) == [client EXCEPT !.context.CustomData = data]
Client_User(client, u) == [client EXCEPT !.context.User = u]
Client_CustomGroupingKeyFunction(client, getCustomGroupingKey) ==
    [client EXCEPT !.context.GetCustomGroupingKey = getCustomGroupingKey]

newErrorData(err, s) == [Message |-> ErrorText(err), StackTrace |-> s]

\* RequestData{}: what newRequestData returns when no request is set
EmptyRequestData ==
    [ HostName |-> "", URL |-> "", HTTPMethod |-> "", IPAddress |-> "",
      QueryString |-> <<>>, Form |-> <<>>, Headers |-> <<>> ]

\* v[0] of a list v without values: the run-time panic of the index
IndexPanic ==
    [type |-> "error", val |-> "runtime error: index out of range [0] with length 0"]

\* arrayMapToStringMap panics: some key has a list without values
arrayMapToStringMapPanics(arrayMap) ==
    \E k \in DOMAIN arrayMap : Len(arrayMap[k]) = 0

\* arrayMapToStringMap, joining the values with a comma
arrayMapToStringMap_CommaJoined(arrayMap) ==
    [ k \in DOMAIN arrayMap |->
        IF Len(arrayMap[k]) > 1
        THEN "[" \o strings_Join(arrayMap[k], ", ") \o "]"
        ELSE arrayMap[k][1] ]

\* arrayMapToStringMap: a list of several values is joined and wrapped in
\* brackets, otherwise the first value is taken
arrayMapToStringMap(arrayMap) ==
    [ k \in DOMAIN arrayMap |->
        IF Len(arrayMap[k]) > 1
        THEN "[" \o strings_Join(arrayMap[k], "; ") \o "]"
        ELSE arrayMap[k][1] ]

\* newRequestData panics: one of the mappings of the request cannot be
\* flattened
newRequestDataPanics(r) ==
    /\ r # NilRequest
    /\ \/ arrayMapToStringMapPanics(r.Query)
       \/ arrayMapToStringMapPanics(r.PostForm)
       \/ arrayMapToStringMapPanics(r.Header)

newRequestData(r) ==
    IF r = NilRequest
    THEN EmptyRequestData
    ELSE [ HostName |-> r.Host, URL |-> r.URL, HTTPMethod |-> r.Method,
           IPAddress |-> r.RemoteAddr,
           QueryString |-> arrayMapToStringMap(r.Query),
           Form |-> arrayMapToStringMap(r.PostForm),
           Headers |-> arrayMapToStringMap(r.Header) ]

\* newDetailsData, leaving out the version of the context
newDetailsData_NoVersion(context, err, stack) ==
    [ MachineName |-> "host",
      Version |-> "",
      Error |-> newErrorData(err, stack),
      Tags |-> context.Tags,
      UserCustomData |-> context.CustomData,
      Request |-> newRequestData(context.Request),
      User |-> [Identifier |-> context.User],
      Context |-> [Identifier |-> context.identifier],
      Client |-> [Name |-> "raygun4go", Version |-> packageVersion,
                  ClientURL |-> "https://github.com/MindscapeHQ/raygun4go"],
      GroupingKey |-> <<>> ]

newDetailsData(context, err, stack) ==
    [ MachineName |-> "host",
      Version |-> context.Version,
      Error |-> newErrorData(err, stack),
      Tags |-> context.Tags,
      UserCustomData |-> context.CustomData,
      Request |-> newRequestData(context.Request),
      User |-> [Identifier |-> context.User],
      Context |-> [Identifier |-> context.identifier],
      Client |-> [Name |-> "raygun4go", Version |-> packageVersion,
                  ClientURL |-> "https://github.com/MindscapeHQ/raygun4go"],
      GroupingKey |-> <<>> ]

newPostData(context, err, stack) ==
    [ OccuredOn |-> "2006-01-02T15:04:05Z",
      Details |-> newDetailsData(context, err, stack) ]

\* the grouping-key callbacks a host can configure, and what they return
CallGroupingKey(fn, err, postData) ==
    IF fn = "constKey" THEN "customGroupingKey" ELSE ""

\* the calls of the grouping-key callback, made once createPost has set
\* the grouping key
GroupingKeyCalls_AfterKeySet(client, err, stack) ==
    IF client.context.GetCustomGroupingKey # NilFunc
    THEN <<[err |-> err,
            postData |->
              [newPostData(client.context, err, stack)
                 EXCEPT !.Details.GroupingKey =
                   <<CallGroupingKey(client.context.GetCustomGroupingKey, err, @)>>],
            printed |-> Len(stdout), started |-> Len(cores)]>>
    ELSE <<>>

\* the calls of the grouping-key callback that createPost makes: the error
\* and the payload each is given, and how many payloads had been printed
\* and how many executions of submitCore had been started when it was made
GroupingKeyCalls(client, err, stack) ==
    IF client.context.GetCustomGroupingKey # NilFunc
    THEN <<[err |-> err, postData |-> newPostData(client.context, err, stack),
            printed |-> Len(stdout), started |-> Len(cores)]>>
    ELSE <<>>

\* createPost, setting the grouping key to whatever the callback returns
createPost_KeyAlwaysSet(client, err, stack) ==
    LET postData == newPostData(client.context, err, stack)
    IN  IF client.context.GetCustomGroupingKey # NilFunc
        THEN LET customGroupingKey ==
                     CallGroupingKey(client.context.GetCustomGroupingKey, err, postData)
             IN  [postData EXCEPT !.Details.GroupingKey = <<customGroupingKey>>]
        ELSE postData

createPost(client, err, stack) ==
    LET postData == newPostData(client.context, err, stack)
    IN  IF client.context.GetCustomGroupingKey # NilFunc
        THEN LET customGroupingKey ==
                     CallGroupingKey(client.context.GetCustomGroupingKey, err, postData)
             IN  IF customGroupingKey # ""
                 THEN [postData EXCEPT !.Details.GroupingKey = <<customGroupingKey>>]
                 ELSE postData
        ELSE postData

\* a report by the entry point op about the error value original: the
\* stack it was given, the calls of the grouping-key callback and the
\* payload assembled
ReportCall(op, client, original, err, stack) ==
    [ op |-> op, error |-> original, stack |-> stack,
      callbacks |-> GroupingKeyCalls(client, err, stack),
      post |-> createPost(client, err, stack) ]

----------------------------------------------------------------------------
(* Serialization and transport *)

\* the JSON document of a payload, under the field names of the struct tags
JSONDocument(post) ==
    [ occurredOn |-> post.OccuredOn,
      details |->
        [ machineName |-> post.Details.MachineName,
          version |-> post.Details.Version,
          error |-> [ message |-> post.Details.Error.Message,
                      stackTrace |->
                        [ i \in DOMAIN post.Details.Error.StackTrace |->
                            LET f == post.Details.Error.StackTrace[i]
                            IN  [ lineNumber |-> f.LineNumber,
                                  className |-> f.PackageName,
                                  fileName |-> f.FileName,
                                  methodName |-> f.MethodName ] ] ],
          tags |-> post.Details.Tags,
          userCustomData |-> post.Details.UserCustomData,
          request |-> post.Details.Request,
          user |-> [identifier |-> post.Details.User.Identifier],
          context |-> [identifier |-> post.Details.Context.Identifier],
          client |-> [ name |-> post.Details.Client.Name,
                       version |-> post.Details.Client.Version,
                       clientUrl |-> post.Details.Client.ClientURL ],
          groupingKey |-> post.Details.GroupingKey ] ]

\* json.Marshal and json.MarshalIndent: the pair (bytes, err)
json_Marshal(post) ==
    IF post.Details.UserCustomData = ChanData
    THEN [bytes |-> NoBytes, err |-> errors_New("json: unsupported type: chan int")]
    ELSE [bytes |-> JSONDocument(post), err |-> NilError]

\* http.NewRequest: the pair (request, err)
http_NewRequest(method, url, body) ==
    IF url = MalformedEndpoint \o "/entries"
    THEN [req |-> NoBytes,
          err |-> errors_New("parse \"" \o url \o "\": invalid URL escape \"%zz\"")]
    ELSE [req |-> [Method |-> method, URL |-> url, Header |-> <<>>, Body |-> body],
          err |-> NilError]

\* what httpClient.Do can return: a transport error, or a response
NoResponse == 0
DoOutcomes ==
    {[err |-> errors_New("dial tcp: connection refused"), StatusCode |-> NoResponse]}
    \cup {[err |-> NilError, StatusCode |-> code] : code \in StatusCodes}

\* submitCore, going on after json.Marshal has failed
submitCoreSend_MarshalErrorIgnored(client, endpoint, post) ==
    LET j == json_Marshal(post)
        r == http_NewRequest("POST", endpoint \o "/entries", j.bytes)
    IN  IF r.err # NilError
        THEN [sent |-> <<>>,
              err |-> errors_New("Unable to create request (" \o ErrorText(r.err) \o ")")]
        ELSE [sent |-> <<[r.req EXCEPT !.Header = <<<<"X-ApiKey", client.apiKey>>>>]>>,
              err |-> NilError]

\* submitCore, sending the application name as the API key
submitCoreSend_AppNameAsKey(client, endpoint, post) ==
    LET j == json_Marshal(post)
    IN  IF j.err # NilError
        THEN [sent |-> <<>>,
              err |-> errors_New("Unable to convert to JSON (" \o ErrorText(j.err)
                                 \o "): " \o ToString(post))]
        ELSE LET r == http_NewRequest("POST", endpoint \o "/entries", j.bytes)
             IN  IF r.err # NilError
                 THEN [sent |-> <<>>,
                       err |-> errors_New("Unable to create request ("
                                          \o ErrorText(r.err) \o ")")]
                 ELSE [sent |-> <<[r.req EXCEPT !.Header = <<<<"X-ApiKey", client.appName>>>>]>>,
                       err |-> NilError]

\* submitCore up to the call of httpClient.Do: the requests it hands to the
\* transport, and the error it returns without calling Do
submitCoreSend(client, endpoint, post) ==
    LET j == json_Marshal(post)
    IN  IF j.err # NilError
        THEN [sent |-> <<>>,
              err |-> errors_New("Unable to convert to JSON (" \o ErrorText(j.err)
                                 \o "): " \o ToString(post))]
        ELSE LET r == http_NewRequest("POST", endpoint \o "/entries", j.bytes)
             IN  IF r.err # NilError
                 THEN [sent |-> <<>>,
                       err |-> errors_New("Unable to create request ("
                                          \o ErrorText(r.err) \o ")")]
                 ELSE [sent |-> <<[r.req EXCEPT !.Header = <<<<"X-ApiKey", client.apiKey>>>>]>>,
                       err |-> NilError]

\* submitCore, taking every 2xx status for success
submitCoreFinish_Any2xx(client, outcome) ==
    IF outcome.err # NilError
    THEN [err |-> errors_New("Failed to request (" \o ErrorText(outcome.err) \o ")"),
          log |-> <<>>]
    ELSE IF outcome.StatusCode >= 200 /\ outcome.StatusCode < 300
    THEN [err |-> NilError,
          log |-> IF client.logToStdOut
                  THEN <<"Successfully sent message to Raygun">>
                  ELSE <<>>]
    ELSE [err |-> errors_New("Unexpected answer from Raygun "
                             \o ToString(outcome.StatusCode)),
          log |-> <<>>]

\* submitCore from the return of httpClient.Do: the error it returns and
\* the lines it logs
submitCoreFinish(client, outcome) ==
    IF outcome.err # NilError
    THEN [err |-> errors_New("Failed to request (" \o ErrorText(outcome.err) \o ")"),
          log |-> <<>>]
    ELSE IF outcome.StatusCode = 202
    THEN [err |-> NilError,
          log |-> IF client.logToStdOut
                  THEN <<"Successfully sent message to Raygun">>
                  ELSE <<>>]
    ELSE LET errMsg == "Unexpected answer from Raygun " \o ToString(outcome.StatusCode)
         IN  [err |-> errors_New(IF outcome.err # NilError
                                 THEN errMsg \o ": " \o ErrorText(outcome.err)
                                 ELSE errMsg),
              log |-> <<>>]

----------------------------------------------------------------------------
(* The stack parser (stack2struct.go) *)

\* A line number is kept as its decimal numeral, without leading zeros:
\* the 32-bit range of strconv.ParseUint exceeds the integers of TLC.
Digits == {"0", "1", "2", "3", "4", "5", "6", "7", "8", "9"}
DigitValue ==
    [ d \in Digits |->
        CASE d = "0" -> 0 [] d = "1" -> 1 [] d = "2" -> 2 [] d = "3" -> 3
          [] d = "4" -> 4 [] d = "5" -> 5 [] d = "6" -> 6 [] d = "7" -> 7
          [] d = "8" -> 8 [] d = "9" -> 9 ]

\* maxVal of ParseUint for bitSize 32: 1<<32 - 1
MaxUint32 == "4294967295"

\* a > b for two numerals without leading zeros
NumeralGreater(a, b) ==
    \/ Len(a) > Len(b)
    \/ /\ Len(a) = Len(b)
       /\ \E i \in 1..Len(a) :
            /\ \A j \in 1..(i - 1) : SubSeq(a, j, j) = SubSeq(b, j, j)
            /\ DigitValue[SubSeq(a, i, i)] > DigitValue[SubSeq(b, i, i)]

\* the digit loop of ParseUint: n is the numeral read so far ("" for zero)
RECURSIVE ParseDigits(_, _)
ParseDigits(s, n) ==
    IF s = "" THEN [value |-> IF n = "" THEN "0" ELSE n, ok |-> TRUE]
    ELSE IF Head(s) \notin Digits THEN [value |-> "0", ok |-> FALSE]
    ELSE LET n1 == IF n = "" /\ Head(s) = "0" THEN "" ELSE n \o Head(s)
         IN  IF NumeralGreater(n1, MaxUint32)
             THEN [value |-> MaxUint32, ok |-> FALSE]
             ELSE ParseDigits(Tail(s), n1)

\* strconv.ParseUint(s, 10, 32): the pair (value, err = nil); a text that is
\* not a decimal number gives 0, a number out of range gives maxVal
strconv_ParseUint(s) ==
    IF s = "" THEN [value |-> "0", ok |-> FALSE] ELSE ParseDigits(s, "")

\* splitAtLastSlash: the texts left and right of the last slash
splitAtLastSlash(line) ==
    LET parts == strings_Split(line, "/")
    IN  [ left |-> strings_Join(SubSeq(parts, 1, Len(parts) - 1), "/"),
          right |-> parts[Len(parts)] ]

\* removeSpaceAndSuffix, cutting off nothing
removeSpaceAndSuffix_KeepsAll(line) == line

\* removeSpaceAndSuffix: cuts off what follows the last space
removeSpaceAndSuffix(line) ==
    LET parts == strings_Split(line, " ")
    IN  IF Len(parts) <= 1 THEN line
        ELSE strings_Join(SubSeq(parts, 1, Len(parts) - 1), " ")

\* extractPackageName, leaving out the path before the last slash
extractPackageName_NoPath(line) ==
    LET split == splitAtLastSlash(line)
        parts == strings_Split(split.right, ".")
    IN  IF Len(parts) > 1
        THEN [ packageName |-> parts[1],
               methodName |-> strings_Join(Tail(parts), ".") ]
        ELSE [ packageName |-> "", methodName |-> parts[1] ]

extractPackageName(line) ==
    LET split == splitAtLastSlash(line)
        parts == strings_Split(split.right, ".")
    IN  IF Len(parts) > 1
        THEN [ packageName |-> IF Len(split.left) > 0
                               THEN split.left \o "/" \o parts[1]
                               ELSE parts[1],
               methodName |-> strings_Join(Tail(parts), ".") ]
        ELSE [ packageName |-> "", methodName |-> parts[1] ]

extractLineNumberAndFile(line) ==
    LET fileAndLine == removeSpaceAndSuffix(splitAtLastSlash(line).right)
        parts == strings_Split(fileAndLine, ":")
    IN  [ lineNumber |-> IF Len(parts) >= 2
                         THEN strconv_ParseUint(parts[2]).value
                         ELSE "0",
          fileName |-> parts[1] ]

\* the loop of Parse over lines[1:], from the line at position index on
RECURSIVE ParseLines(_, _, _, _, _)
ParseLines(rest, index, packageName, methodName, stack) ==
    IF rest = <<>> THEN stack
    ELSE LET line == Head(rest)
         IN  IF Len(line) = 0
             THEN ParseLines(Tail(rest), index + 1, packageName, methodName, stack)
             ELSE IF index % 2 = 0
             THEN LET sym == extractPackageName(line)
                  IN  ParseLines(Tail(rest), index + 1, sym.packageName,
                                 sym.methodName, stack)
             ELSE LET loc == extractLineNumberAndFile(line)
                  IN  ParseLines(Tail(rest), index + 1, packageName, methodName,
                                 Append(stack, StackTraceElement(loc.lineNumber, packageName,
                                                                 loc.fileName, methodName)))

\* Parse(trace, stack): the entries it adds to stack
Parse(trace, stack) ==
    LET lines == strings_Split(trace, "\n")
    IN  ParseLines(Tail(lines), 0, "", "", stack)

----------------------------------------------------------------------------
(* Initial values of handlers and parsing *)

\* the number of concurrent request handlers of the host
MaxHandlers == 2
Handlers == 1..MaxHandlers

\* References to clients: none, the client made by New (the variable c),
\* and for a handler h the client that Clone made for it (its cell).
NoRef == -1
OriginalRef == 0
\* a handler has not started: it holds no client of its own and has made no
\* report
IdleHandlers ==
    [h \in Handlers |-> [pc |-> "start", ref |-> NoRef, cell |-> NoClient, report |-> <<>>]]

NotParsing == [lines |-> <<>>, trace |-> "", done |-> FALSE, stack |-> <<>>]

----------------------------------------------------------------------------
(* The objects of the host that a client refers to *)

\* ParseForm has run on no request, the body of no request is read, and
\* the array of the host's slice hostTags is that of no client's Tags
InitialHeap == [parsed |-> {}, bodyRead |-> {}, tags |-> HostTags, sharers |-> {}]

\* r.ParseForm() of net/http: unless r.PostForm and r.Form are filled it
\* fills them, for a POST, PUT or PATCH of a form from the body, which it
\* reads to its end
FormMethods == {"POST", "PUT", "PATCH"}
HasFormBody(r) ==
    /\ r.Method \in FormMethods
    /\ "Content-Type" \in DOMAIN r.Header
    /\ r.Header["Content-Type"] = <<FormContentType>>
\* r.ParseForm(), reading the body of every request
http_ParseForm_ReadsEveryBody(objects, r) ==
    IF r \in objects.parsed
    THEN objects
    ELSE [objects EXCEPT !.parsed = @ \cup {r}, !.bodyRead = @ \cup {r}]

http_ParseForm(objects, r) ==
    IF r \in objects.parsed
    THEN objects
    ELSE [objects EXCEPT !.parsed = @ \cup {r},
                         !.bodyRead = IF HasFormBody(r) THEN @ \cup {r} ELSE @]

\* what newRequestData(r) does to the request
newRequestDataEffect(objects, r) ==
    IF r = NilRequest THEN objects ELSE http_ParseForm(objects, r)

\* what createPost on client does to the request of its context
createPostEffect(client) == newRequestDataEffect(heap, client.context.Request)

\* c.context.Tags = tags on the client at ref: the slice is stored, not its
\* elements, so the client's Tags share the array of the host's slice when
\* the host passed that slice
TagsEffect(objects, ref, tags) ==
    [objects EXCEPT !.sharers = IF tags # <<>> /\ tags = objects.tags
                                 THEN @ \cup {ref}
                                 ELSE @ \ {ref}]

\* Clone, copying the elements of the tags
CloneEffect_CopiesElements(objects, ref) ==
    [objects EXCEPT !.sharers = @ \ {ref}]

\* Tags: c.context.Tags in Clone, for the clone at ref: the slice is
\* copied, not its elements
CloneEffect(objects, ref) ==
    [objects EXCEPT !.sharers = IF OriginalRef \in @ THEN @ \cup {ref} ELSE @ \ {ref}]

----------------------------------------------------------------------------
Init ==
    /\ c = NoClient
    /\ lastNew = [called |-> FALSE, appName |-> "", apiKey |-> "",
                  c |-> NoClient, err |-> NilError]
    /\ raygunEndpoint \in Endpoints
    /\ pc = "idle"
    /\ panicValue = NoPanic
    /\ ret = [op |-> "none", err |-> NilError]
    /\ subs = <<>>
    /\ cores = <<>>
    /\ stdout = <<>>
    /\ logOut = <<>>
    /\ handlers = IdleHandlers
    /\ calls = <<>>
    /\ parsing = NotParsing
    /\ heap = InitialHeap

\* the host calls New until it has a client
New ==
    /\ pc = "idle"
    /\ c = NoClient
    /\ \E appName \in AppNames, apiKey \in ApiKeys, identifier \in Identifiers :
         LET r == NewResult(appName, apiKey, identifier)
         IN  /\ lastNew' = [called |-> TRUE, appName |-> appName,
                            apiKey |-> apiKey, c |-> r.c, err |-> r.err]
             /\ c' = r.c
    /\ UNCHANGED <<raygunEndpoint, pc, panicValue, ret, subs, cores, stdout, logOut>>
    /\ UNCHANGED aside

Silent ==
    /\ pc = "idle"
    /\ c # NoClient
    /\ \E s \in BOOLEAN : c' = [c EXCEPT !.silent = s]
    /\ UNCHANGED <<lastNew, raygunEndpoint, pc, panicValue, ret, subs, cores, stdout, logOut>>
    /\ UNCHANGED aside

LogToStdOut ==
    /\ pc = "idle"
    /\ c # NoClient
    /\ \E l \in BOOLEAN : c' = [c EXCEPT !.logToStdOut = l]
    /\ UNCHANGED <<lastNew, raygunEndpoint, pc, panicValue, ret, subs, cores, stdout, logOut>>
    /\ UNCHANGED aside

Asynchronous ==
    /\ pc = "idle"
    /\ c # NoClient
    /\ \E a \in BOOLEAN : c' = [c EXCEPT !.asynchronous = a]
    /\ UNCHANGED <<lastNew, raygunEndpoint, pc, panicValue, ret, subs, cores, stdout, logOut>>
    /\ UNCHANGED aside

CustomData ==
    /\ pc = "idle"
    /\ c # NoClient
    /\ \E data \in CustomDataValues : c' = [c EXCEPT !.context.CustomData = data]
    /\ UNCHANGED <<lastNew, raygunEndpoint, pc, panicValue, ret, subs, cores, stdout, logOut>>
    /\ UNCHANGED aside

----------------------------------------------------------------------------
(* Scopes guarded by "defer c.HandleError()" *)

\* the guarded function returns normally: the deferred call runs, no panic
Return ==
    /\ pc = "idle"
    /\ c # NoClient
    /\ pc' = "deferred"
    /\ panicValue' = NoPanic
    /\ UNCHANGED <<c, lastNew, raygunEndpoint, ret, subs, cores, stdout, logOut>>
    /\ UNCHANGED aside

\* the guarded function, or one it calls, panics: the deferred call runs
Panic ==
    /\ pc = "idle"
    /\ c # NoClient
    /\ Len(subs) < MaxSubmits
    /\ \E v \in PanicValues : panicValue' = v
    /\ pc' = "deferred"
    /\ UNCHANGED <<c, lastNew, raygunEndpoint, ret, subs, cores, stdout, logOut>>
    /\ UNCHANGED aside

----------------------------------------------------------------------------
(* Submit *)

\* a call of Submit by the entry point op: its payload, the client's flags
\* when it was called, whether it has returned, and the error it returned
SubmitCall(op, post, client, err, returned) ==
    [ op |-> op, post |-> post, silent |-> client.silent,
      asynchronous |-> client.asynchronous, returned |-> returned, ret |-> err ]

\* an execution of submitCore for the Submit call sub: the thread it runs
\* on, the requests it handed to the transport, what httpClient.Do returned
\* to it, and the error it returned
NoOutcome == [err |-> NilError, StatusCode |-> -1]
Core(sub, thread, post, state, sent, result) ==
    [ sub |-> sub, thread |-> thread, post |-> post, pc |-> state,
      sent |-> sent, outcome |-> NoOutcome, result |-> result ]

\* what HandleError logs once Submit has returned err; the other entry
\* points return err as it is
ReturnLog(op, client, err) ==
    IF op = "HandleError" /\ client.logToStdOut /\ err # NilError
    THEN <<ErrorText(err)>>
    ELSE <<>>

\* Submit returns err to the entry point op, which returns it to the caller
ReturnToCaller(op, err, logged) ==
    /\ logOut' = logOut \o logged \o ReturnLog(op, c, err)
    /\ pc' = "idle"
    /\ ret' = [op |-> op, err |-> err]

\* silent: the payload is printed, nothing is sent
SubmitSilent(op, post, logged) ==
    LET enc == json_Marshal(post).bytes
    IN  /\ stdout' = Append(stdout, enc)
        /\ subs' = Append(subs, SubmitCall(op, post, c, NilError, TRUE))
        /\ ReturnToCaller(op, NilError, logged)
        /\ UNCHANGED cores

\* asynchronous: go c.submitCore(post)
SubmitGo(op, post, logged) ==
    /\ cores' = Append(cores, Core(Len(subs) + 1, "goroutine", post, "started", <<>>, NilError))
    /\ subs' = Append(subs, SubmitCall(op, post, c, NilError, TRUE))
    /\ ReturnToCaller(op, NilError, logged)
    /\ UNCHANGED stdout

\* synchronous: return c.submitCore(post); the caller blocks in httpClient.Do
SubmitDirect(op, post, logged) ==
    LET r == submitCoreSend(c, raygunEndpoint, post)
    IN  /\ UNCHANGED stdout
        /\ IF r.err # NilError
           THEN /\ cores' = Append(cores, Core(Len(subs) + 1, "caller", post, "done", r.sent, r.err))
                /\ subs' = Append(subs, SubmitCall(op, post, c, r.err, TRUE))
                /\ ReturnToCaller(op, r.err, logged)
           ELSE /\ cores' = Append(cores, Core(Len(subs) + 1, "caller", post, "awaiting", r.sent, NilError))
                /\ subs' = Append(subs, SubmitCall(op, post, c, NilError, FALSE))
                /\ logOut' = logOut \o logged
                /\ pc' = "blocked"
                /\ UNCHANGED ret

\* Submit, testing the asynchronous flag before the silent flag
Submit_AsynchronousFirst(op, post, logged) ==
    IF c.asynchronous
    THEN SubmitGo(op, post, logged)
    ELSE IF c.silent
    THEN SubmitSilent(op, post, logged)
    ELSE SubmitDirect(op, post, logged)

\* Submit, running submitCore on the caller also in asynchronous mode
Submit_NoGoroutine(op, post, logged) ==
    IF c.silent
    THEN SubmitSilent(op, post, logged)
    ELSE SubmitDirect(op, post, logged)

\* Submit, called by the entry point op (or by the host when op is "Submit")
\* with post, after the entry point has logged the lines logged
Submit(op, post, logged) ==
    IF c.silent
    THEN SubmitSilent(op, post, logged)
    ELSE IF c.asynchronous
    THEN SubmitGo(op, post, logged)
    ELSE SubmitDirect(op, post, logged)

\* payloads the host hands to Submit itself
HostPosts ==
    { newPostData([contextInformation("uuid-1") EXCEPT !.CustomData = data],
                  errors_New("manual"), <<>>) : data \in {NilData, ChanData} }

SubmitPost ==
    /\ pc = "idle"
    /\ c # NoClient
    /\ Len(subs) < MaxSubmits
    /\ \E post \in HostPosts : Submit("Submit", post, <<>>)
    /\ UNCHANGED <<c, lastNew, raygunEndpoint, panicValue>>
    /\ UNCHANGED aside

----------------------------------------------------------------------------
(* HandleError, as the deferred call *)

\* the error value that a panic with an error carries
PanicError(e) == HostError(e.val, "*errors.errorString")

\* the run-time panic of the type assertion e.(string) on another type
TypeAssertionPanic(e) ==
    [ type |-> "error",
      val |-> "interface conversion: interface {} is " \o e.type \o ", not string" ]

\* HandleError, logging before it tests what recover() returned
HandleErrorNil_LogsFirst ==
    /\ pc' = "idle"
    /\ ret' = [op |-> "HandleError", err |-> NilError]
    /\ logOut' = IF c.logToStdOut THEN Append(logOut, "Recovering from: ") ELSE logOut
    /\ UNCHANGED <<panicValue, subs, cores, stdout, calls, heap>>

\* recover() returned nil
HandleErrorNil ==
    /\ pc' = "idle"
    /\ ret' = [op |-> "HandleError", err |-> NilError]
    /\ UNCHANGED <<panicValue, subs, cores, stdout, logOut, calls, heap>>

\* recover() returned e, the value of the panic
HandleErrorRecovered(e) ==
    IF e.type # "error" /\ e.type # "string"
    THEN /\ pc' = "crashed"
         /\ panicValue' = TypeAssertionPanic(e)
         /\ UNCHANGED <<ret, subs, cores, stdout, logOut, calls, heap>>
    ELSE LET err == IF e.type = "error" THEN PanicError(e) ELSE errors_New(e.val)
             logged == IF c.logToStdOut
                       THEN <<"Recovering from: " \o ErrorText(err)>>
                       ELSE <<>>
             stack == currentStack("HandleError")
             post == createPost(c, err, stack)
         IN  /\ panicValue' = NoPanic
             /\ calls' = Append(calls, ReportCall("HandleError", c, err, err, stack))
             /\ heap' = createPostEffect(c)
             /\ Submit("HandleError", post, logged)

HandleError ==
    /\ pc = "deferred"
    /\ IF panicValue = NoPanic
       THEN HandleErrorNil
       ELSE HandleErrorRecovered(panicValue)
    /\ UNCHANGED <<c, lastNew, raygunEndpoint, handlers, parsing>>

----------------------------------------------------------------------------
(* submitCore on a goroutine, and the transport *)

\* a goroutine started by Submit runs submitCore up to httpClient.Do
GoroutineRun ==
    \E i \in DOMAIN cores :
      /\ cores[i].pc = "started"
      /\ LET r == submitCoreSend(c, raygunEndpoint, cores[i].post)
         IN  cores' = [cores EXCEPT ![i].sent = r.sent,
                                    ![i].result = r.err,
                                    ![i].pc = IF r.err # NilError THEN "done" ELSE "awaiting"]
      /\ UNCHANGED <<c, lastNew, raygunEndpoint, pc, panicValue, ret, subs, stdout, logOut>>
      /\ UNCHANGED aside

\* httpClient.Do returns to the submitCore that waits for it; submitCore
\* returns, and on the caller so do Submit and the entry point
HttpDo ==
    \E i \in DOMAIN cores, outcome \in DoOutcomes :
      /\ cores[i].pc = "awaiting"
      /\ LET r == submitCoreFinish(c, outcome)
             op == subs[cores[i].sub].op
         IN  /\ cores' = [cores EXCEPT ![i].pc = "done", ![i].outcome = outcome,
                                        ![i].result = r.err]
             /\ IF cores[i].thread = "caller"
                THEN /\ subs' = [subs EXCEPT ![cores[i].sub].returned = TRUE,
                                             ![cores[i].sub].ret = r.err]
                     /\ logOut' = logOut \o r.log \o ReturnLog(op, c, r.err)
                     /\ pc' = "idle"
                     /\ ret' = [op |-> op, err |-> r.err]
                ELSE /\ logOut' = logOut \o r.log
                     /\ UNCHANGED <<subs, pc, ret>>
      /\ UNCHANGED <<c, lastNew, raygunEndpoint, panicValue, stdout>>
      /\ UNCHANGED aside

----------------------------------------------------------------------------
Next ==
    \/ New
    \/ Silent
    \/ LogToStdOut
    \/ Asynchronous
    \/ CustomData
    \/ Return
    \/ Panic
    \/ HandleError
    \/ SubmitPost
    \/ GoroutineRun
    \/ HttpDo

Spec == Init /\ [][Next]_vars

----------------------------------------------------------------------------
(* Parsing a raw stack dump: Parse applied to the dumps of runtime.Stack *)

\* the longest body (the lines after the header) of a dump
MaxTraceLines == 4

\* the header line of a dump of one goroutine
HeaderLine == "goroutine 1 [running]:"

\* symbol lines and location lines as runtime.Stack prints them, and the
\* blank line
SymbolLines == {"main.foo()", "github.com/a/pkg.(*T).Run(0x1)"}
LocationLines == {"\t/home/u/main.go:42 +0x1", "\t/src/pkg/run.go:7"}
BlankLine == ""
TraceLines == SymbolLines \cup LocationLines \cup {BlankLine}

\* the dump with the given body: every line ends with a line feed
RECURSIVE DumpBody(_)
DumpBody(lines) ==
    IF lines = <<>> THEN "" ELSE Head(lines) \o "\n" \o DumpBody(Tail(lines))

Dump(lines) == HeaderLine \o "\n" \o DumpBody(lines)

Bodies == UNION { [1..n -> TraceLines] : n \in 0..MaxTraceLines }

\* everything but parsing is as construction leaves it
Untouched ==
    /\ c = NoClient
    /\ lastNew = [called |-> FALSE, appName |-> "", apiKey |-> "",
                  c |-> NoClient, err |-> NilError]
    /\ raygunEndpoint = DefaultEndpoint
    /\ pc = "idle"
    /\ panicValue = NoPanic
    /\ ret = [op |-> "none", err |-> NilError]
    /\ subs = <<>>
    /\ cores = <<>>
    /\ stdout = <<>>
    /\ logOut = <<>>
    /\ heap = InitialHeap

InitParse ==
    /\ Untouched
    /\ handlers = IdleHandlers
    /\ calls = <<>>
    /\ \E lines \in Bodies :
         parsing = [lines |-> lines, trace |-> Dump(lines), done |-> FALSE, stack |-> <<>>]

\* var st StackTrace; Parse(trace, &st)
ParseTrace ==
    /\ ~parsing.done
    /\ parsing' = [parsing EXCEPT !.done = TRUE,
                                  !.stack = Parse(parsing.trace, <<>>)]
    /\ UNCHANGED <<c, lastNew, raygunEndpoint, pc, panicValue, ret, subs, cores,
                   stdout, logOut, handlers, calls, heap>>

NextParse == ParseTrace

SpecParse == InitParse /\ [][NextParse]_vars

----------------------------------------------------------------------------
(* Reports of a configured client: the context setters, CreateError and    *)
(* SendError beside HandleError and Submit.  One report is observed at a   *)
(* time: the host configures the client, reports, and the record of the    *)
(* report is dropped before the host goes on.                              *)

Request ==
    /\ pc = "idle"
    /\ c # NoClient
    /\ \E r \in Requests : c' = Client_Request(c, r)
    /\ UNCHANGED <<lastNew, raygunEndpoint, pc, panicValue, ret, subs, cores, stdout, logOut>>
    /\ UNCHANGED aside

Version ==
    /\ pc = "idle"
    /\ c # NoClient
    /\ \E v \in Versions : c' = Client_Version(c, v)
    /\ UNCHANGED <<lastNew, raygunEndpoint, pc, panicValue, ret, subs, cores, stdout, logOut>>
    /\ UNCHANGED aside

Tags ==
    /\ pc = "idle"
    /\ c # NoClient
    /\ \E tags \in TagsValues :
         /\ c' = Client_Tags(c, tags)
         /\ heap' = TagsEffect(heap, OriginalRef, tags)
    /\ UNCHANGED <<lastNew, raygunEndpoint, pc, panicValue, ret, subs, cores, stdout, logOut>>
    /\ UNCHANGED <<handlers, calls, parsing>>

User ==
    /\ pc = "idle"
    /\ c # NoClient
    /\ \E u \in Users : c' = Client_User(c, u)
    /\ UNCHANGED <<lastNew, raygunEndpoint, pc, panicValue, ret, subs, cores, stdout, logOut>>
    /\ UNCHANGED aside

CustomGroupingKeyFunction ==
    /\ pc = "idle"
    /\ c # NoClient
    /\ \E getCustomGroupingKey \in GroupingKeyFuncs :
         c' = Client_CustomGroupingKeyFunction(c, getCustomGroupingKey)
    /\ UNCHANGED <<lastNew, raygunEndpoint, pc, panicValue, ret, subs, cores, stdout, logOut>>
    /\ UNCHANGED aside

\* messages the host reports with CreateError
Messages == {"something went wrong"}

\* dumps that the Stack() method of an error of the host returns
GoErrorsDump == Dump(<<"main.work()", "\t/home/u/work.go:7 +0x1">>)
TracedDump == Dump(<<"main.load()", "\t/home/u/load.go:9 +0x1">>)

\* errors the host reports with SendError: a plain error, an error of
\* go-errors, and an error of a type of the host that has a Stack() method
HostErrors ==
    { HostError("EOF", "*errors.errorString"),
      HostTracedError("oops", GoErrorsType, GoErrorsDump),
      HostTracedError("fail", "*main.TracedError", TracedDump) }

\* the stack SendError reports with, taking the error's own stack from
\* every error that has a Stack() method
SendErrorStack_AnyStackMethod(error) ==
    IF HasStackMethod(error)
    THEN Parse(ErrorStack(error), <<>>)
    ELSE currentStack("SendError")

\* the stack SendError reports with
SendErrorStack(error) ==
    IF ErrorType(error) = GoErrorsType
    THEN Parse(ErrorStack(error), <<>>)
    ELSE currentStack("SendError")

CreateError ==
    /\ pc = "idle"
    /\ c # NoClient
    /\ \E message \in Messages :
         LET err == errors_New(message)
             stack == currentStack("CreateError")
             post == createPost(c, err, stack)
         IN  /\ calls' = Append(calls, ReportCall("CreateError", c, err, err, stack))
             /\ heap' = createPostEffect(c)
             /\ Submit("CreateError", post, <<>>)
    /\ UNCHANGED <<c, lastNew, raygunEndpoint, panicValue, handlers, parsing>>

SendError ==
    /\ pc = "idle"
    /\ c # NoClient
    /\ \E error \in HostErrors :
         LET err == errors_New(ErrorText(error))
             st == SendErrorStack(error)
             post == createPost(c, err, st)
         IN  /\ calls' = Append(calls, ReportCall("SendError", c, error, err, st))
             /\ heap' = createPostEffect(c)
             /\ Submit("SendError", post, <<>>)
    /\ UNCHANGED <<c, lastNew, raygunEndpoint, panicValue, handlers, parsing>>

\* nothing of an earlier report is on record
Unobserved ==
    /\ pc = "idle"
    /\ ret = [op |-> "none", err |-> NilError]
    /\ subs = <<>>
    /\ cores = <<>>
    /\ stdout = <<>>
    /\ logOut = <<>>
    /\ calls = <<>>
    /\ handlers = IdleHandlers

\* The record of a finished report, and a clone the host made, are dropped.  The client keeps no record of
\* its reports: what is dropped is read by no code.
Forget ==
    /\ pc = "idle"
    /\ ~Unobserved
    /\ \A i \in DOMAIN cores : cores[i].pc = "done"
    /\ ret' = [op |-> "none", err |-> NilError]
    /\ subs' = <<>>
    /\ cores' = <<>>
    /\ stdout' = <<>>
    /\ logOut' = <<>>
    /\ calls' = <<>>
    /\ handlers' = IdleHandlers
    /\ heap' = [heap EXCEPT !.sharers = @ \cap {OriginalRef}]
    /\ UNCHANGED <<c, lastNew, raygunEndpoint, pc, panicValue, parsing>>

InitReport ==
    /\ Untouched
    /\ handlers = IdleHandlers
    /\ calls = <<>>
    /\ parsing = NotParsing

Configure ==
    /\ Unobserved
    /\ \/ Silent
       \/ LogToStdOut
       \/ Asynchronous
       \/ Request
       \/ Version
       \/ Tags
       \/ CustomData
       \/ User
       \/ CustomGroupingKeyFunction

Report ==
    /\ Unobserved
    /\ \/ Return
       \/ Panic
       \/ CreateError
       \/ SendError
       \/ SubmitPost

----------------------------------------------------------------------------
(* Clones: the client made by New and the clients made from it by Clone,   *)
(* one per handler, with setter calls on any of them.                      *)

\* the longest sequence of calls of Clone and of setters on record
MaxCalls == 2

\* Clone, returning its receiver
CloneRef_Receiver(h) == OriginalRef

\* the reference that Clone returns to handler h: to a new client
CloneRef(h) == h

\* the client that handler h works on
ClientAt(h) == IF handlers[h].ref = OriginalRef THEN c ELSE handlers[h].cell

\* clone := c.Clone(), by handler h
Clone(h) ==
    /\ c # NoClient
    /\ handlers[h].pc = "start"
    /\ LET ref == CloneRef(h)
       IN  /\ handlers' = [handlers EXCEPT
                 ![h].pc = "cloned",
                 ![h].ref = ref,
                 ![h].cell = IF ref = OriginalRef THEN NoClient ELSE Client_Clone(c)]
           /\ calls' = Append(calls, [op |-> "Clone", by |-> h, on |-> OriginalRef,
                                      returned |-> ref])
           /\ heap' = IF ref = OriginalRef THEN heap ELSE CloneEffect(heap, ref)
    /\ UNCHANGED <<c, lastNew, raygunEndpoint, pc, panicValue, ret, subs, cores,
                   stdout, logOut, parsing>>

Setters ==
    { "Silent", "LogToStdOut", "Asynchronous", "Request", "Version", "Tags",
      "CustomData", "User", "CustomGroupingKeyFunction" }

\* the arguments a setter is called with
SetterArgs(setter) ==
    CASE setter \in {"Silent", "LogToStdOut", "Asynchronous"} -> BOOLEAN
      [] setter = "Request" -> Requests
      [] setter = "Version" -> Versions
      [] setter = "Tags" -> TagsValues
      [] setter = "CustomData" -> CustomDataValues
      [] setter = "User" -> Users
      [] setter = "CustomGroupingKeyFunction" -> GroupingKeyFuncs

\* the field a setter assigns
SetterField ==
    [ Silent |-> "silent", LogToStdOut |-> "logToStdOut",
      Asynchronous |-> "asynchronous", Request |-> "Request",
      Version |-> "Version", Tags |-> "Tags", CustomData |-> "CustomData",
      User |-> "User", CustomGroupingKeyFunction |-> "GetCustomGroupingKey" ]

\* the client after the call of a setter
CallSetter(setter, client, arg) ==
    CASE setter = "Silent" -> Client_Silent(client, arg)
      [] setter = "LogToStdOut" -> Client_LogToStdOut(client, arg)
      [] setter = "Asynchronous" -> Client_Asynchronous(client, arg)
      [] setter = "Request" -> Client_Request(client, arg)
      [] setter = "Version" -> Client_Version(client, arg)
      [] setter = "Tags" -> Client_Tags(client, arg)
      [] setter = "CustomData" -> Client_CustomData(client, arg)
      [] setter = "User" -> Client_User(client, arg)
      [] setter = "CustomGroupingKeyFunction" ->
             Client_CustomGroupingKeyFunction(client, arg)

\* the host (0) and the handlers that hold a client
Holders == {0} \cup { h \in Handlers : handlers[h].ref # NoRef }
RefOf(holder) == IF holder = 0 THEN OriginalRef ELSE handlers[holder].ref
ClientOf(holder) == IF holder = 0 THEN c ELSE ClientAt(holder)

\* a holder calls a setter on its client; the setter returns its receiver
SetterCall ==
    /\ c # NoClient
    /\ \E holder \in Holders, setter \in Setters :
         \E arg \in SetterArgs(setter) :
           LET on == RefOf(holder)
               client == CallSetter(setter, ClientOf(holder), arg)
           IN  /\ IF on = OriginalRef
                  THEN c' = client /\ UNCHANGED handlers
                  ELSE handlers' = [handlers EXCEPT ![holder].cell = client]
                       /\ UNCHANGED c
               /\ calls' = Append(calls, [op |-> setter, by |-> holder, on |-> on,
                                          arg |-> (SetterField[setter] :> arg),
                                          returned |-> on])
               /\ heap' = IF setter = "Tags" THEN TagsEffect(heap, on, arg) ELSE heap
    /\ UNCHANGED <<lastNew, raygunEndpoint, pc, panicValue, ret, subs, cores,
                   stdout, logOut, parsing>>

NextReport ==
    \/ New
    \/ Configure
    \/ Report
    \/ Unobserved /\ \E h \in Handlers : Clone(h)
    \/ HandleError
    \/ GoroutineRun
    \/ HttpDo
    \/ Forget

SpecReport == InitReport /\ [][NextReport]_vars

\* the host writes an element of its slice in place: hostTags[0] = "changed".
\* Every client whose Tags are that slice has the element changed.
ChangedTags == [HostTags EXCEPT ![1] = "changed"]
WriteTag ==
    /\ c # NoClient
    /\ heap.tags = HostTags
    /\ LET written(ref, client) ==
               IF ref \in heap.sharers
               THEN [client EXCEPT !.context.Tags = ChangedTags]
               ELSE client
       IN  /\ heap' = [heap EXCEPT !.tags = ChangedTags]
           /\ c' = written(OriginalRef, c)
           /\ handlers' = [h \in Handlers |->
                             [handlers[h] EXCEPT !.cell = written(h, @)]]
    /\ UNCHANGED <<lastNew, raygunEndpoint, pc, panicValue, ret, subs, cores,
                   stdout, logOut, calls, parsing>>

NextClone ==
    \/ New
    \/ WriteTag
    \/ Len(calls) < MaxCalls /\ \E h \in Handlers : Clone(h)
    \/ Len(calls) < MaxCalls /\ SetterCall

SpecClone == InitReport /\ [][NextClone]_vars

----------------------------------------------------------------------------
(* Concurrent request handlers: each clones the shared client, sets its    *)
(* request and its user on the clone, and reports through the clone.       *)

\* the request that handler h serves, and its user
RequestOf(h) == [SomeRequest EXCEPT !.URL = "/handler/" \o ToString(h)]
UserOf(h) == "user-" \o ToString(h)

\* handler h stores client as its client and goes on at next
StoreClient(h, client, next) ==
    IF handlers[h].ref = OriginalRef
    THEN /\ c' = client
         /\ handlers' = [handlers EXCEPT ![h].pc = next]
    ELSE /\ handlers' = [handlers EXCEPT ![h].cell = client, ![h].pc = next]
         /\ UNCHANGED c

\* clone.Request(r)
HandlerRequest(h) ==
    /\ handlers[h].pc = "cloned"
    /\ StoreClient(h, Client_Request(ClientAt(h), RequestOf(h)), "request")
    /\ UNCHANGED <<lastNew, raygunEndpoint, pc, panicValue, ret, subs, cores,
                   stdout, logOut, calls, parsing, heap>>

\* clone.User(u)
HandlerUser(h) ==
    /\ handlers[h].pc = "request"
    /\ StoreClient(h, Client_User(ClientAt(h), UserOf(h)), "user")
    /\ UNCHANGED <<lastNew, raygunEndpoint, pc, panicValue, ret, subs, cores,
                   stdout, logOut, calls, parsing, heap>>

\* the report of a handler: the entry point, the error it is about, and the
\* execution of submitCore for it (of no Submit call of the host: sub 0)
HandlerReportOf(op, original, thread, post, state, sent, result) ==
    [ op |-> op, error |-> original,
      core |-> Core(0, thread, post, state, sent, result) ]

\* Submit(post) on the client of handler h, for the entry point op
HandlerSubmit(h, op, original, post) ==
    LET client == ClientAt(h)
    IN  IF client.silent
        THEN /\ stdout' = Append(stdout, json_Marshal(post).bytes)
             /\ handlers' = [handlers EXCEPT
                   ![h].pc = "done",
                   ![h].report = <<HandlerReportOf(op, original, "caller", post,
                                                   "done", <<>>, NilError)>>]
        ELSE IF client.asynchronous
        THEN /\ handlers' = [handlers EXCEPT
                   ![h].pc = "done",
                   ![h].report = <<HandlerReportOf(op, original, "goroutine", post,
                                                   "started", <<>>, NilError)>>]
             /\ UNCHANGED stdout
        ELSE LET r == submitCoreSend(client, raygunEndpoint, post)
                 failed == r.err # NilError
             IN  /\ handlers' = [handlers EXCEPT
                       ![h].pc = IF failed THEN "done" ELSE "blocked",
                       ![h].report = <<HandlerReportOf(op, original, "caller", post,
                                           IF failed THEN "done" ELSE "awaiting",
                                           r.sent, r.err)>>]
                 /\ UNCHANGED stdout

\* clone.CreateError(message) or clone.SendError(error)
HandlerReport(h) ==
    /\ handlers[h].pc = "user"
    /\ \/ \E message \in Messages :
            LET err == errors_New(message)
            IN  HandlerSubmit(h, "CreateError", err,
                              createPost(ClientAt(h), err, currentStack("CreateError")))
       \/ \E error \in HostErrors :
            LET err == errors_New(ErrorText(error))
            IN  HandlerSubmit(h, "SendError", error,
                              createPost(ClientAt(h), err, SendErrorStack(error)))
    /\ heap' = createPostEffect(ClientAt(h))
    /\ UNCHANGED <<c, lastNew, raygunEndpoint, pc, panicValue, ret, subs, cores,
                   logOut, calls, parsing>>

\* the goroutine started by the Submit of handler h runs submitCore up to
\* httpClient.Do
HandlerGoroutineRun(h) ==
    /\ handlers[h].report # <<>>
    /\ handlers[h].report[1].core.pc = "started"
    /\ LET r == submitCoreSend(ClientAt(h), raygunEndpoint, handlers[h].report[1].core.post)
       IN  handlers' = [handlers EXCEPT
               ![h].report[1].core.sent = r.sent,
               ![h].report[1].core.result = r.err,
               ![h].report[1].core.pc = IF r.err # NilError THEN "done" ELSE "awaiting"]
    /\ UNCHANGED <<c, lastNew, raygunEndpoint, pc, panicValue, ret, subs, cores,
                   stdout, logOut, calls, parsing, heap>>

\* httpClient.Do returns to the submitCore of handler h
HandlerHttpDo(h) ==
    /\ handlers[h].report # <<>>
    /\ handlers[h].report[1].core.pc = "awaiting"
    /\ \E outcome \in DoOutcomes :
         LET r == submitCoreFinish(ClientAt(h), outcome)
         IN  /\ handlers' = [handlers EXCEPT
                   ![h].pc = "done",
                   ![h].report[1].core.pc = "done",
                   ![h].report[1].core.outcome = outcome,
                   ![h].report[1].core.result = r.err]
             /\ logOut' = logOut \o r.log
    /\ UNCHANGED <<c, lastNew, raygunEndpoint, pc, panicValue, ret, subs, cores,
                   stdout, calls, parsing, heap>>

NextHandlers ==
    \/ New
    \/ calls = <<>> /\ (Silent \/ Asynchronous)
    \/ \E h \in Handlers : Clone(h)
    \/ \E h \in Handlers : HandlerRequest(h)
    \/ \E h \in Handlers : HandlerUser(h)
    \/ \E h \in Handlers : HandlerReport(h)
    \/ \E h \in Handlers : HandlerGoroutineRun(h)
    \/ \E h \in Handlers : HandlerHttpDo(h)

SpecHandlers == InitReport /\ [][NextHandlers]_vars

----------------------------------------------------------------------------
(* The functions of the parser and of the request snapshot, each called    *)
(* once with an argument of the host.                                      *)

\* symbol lines "[modulePath/]packageName[.methodName]" by their parts: the
\* path before the last slash, the text up to the first dot after it, and
\* the text after that dot (none when there is no dot)
ModulePaths == {"", "github.com/a", "gopkg.in/yaml.v2"}
FirstSegments == {"main", "pkg", ""}
MethodTexts == {<<>>, <<"foo()">>, <<"(*T).Run(0x1)">>, <<"main.func1()">>, <<"">>}
SymbolLine(path, first, after) ==
    (IF path = "" THEN "" ELSE path \o "/") \o first
        \o (IF after = <<>> THEN "" ELSE "." \o after[1])

\* location lines "\t[drive:]path/file[:lineNumber][ +0xOFFSET]" by their
\* parts: the text up to the last slash, the file name, the text after the
\* colon (none when there is no colon) and the suffix
LocationDirs == {"\t/home/u/", "\tC:/src/", "\t/"}
FileNames == {"main.go", "my file.go"}
ParsableNumbers == {"42", "0", "4294967295"}
NonNumbers == {"abc", "4x", ""}
NegativeNumbers == {"-5"}
TooLargeNumbers == {"4294967296", "99999999999"}
UnparsableNumbers == NonNumbers \cup NegativeNumbers \cup TooLargeNumbers
NumberTexts ==
    {<<>>} \cup { <<t>> : t \in ParsableNumbers \cup UnparsableNumbers }
NoSuffix == ""
OffsetSuffix == " +0x1d"
Suffixes == {NoSuffix, OffsetSuffix}
LocationLine(dir, file, number, suffix) ==
    dir \o file \o (IF number = <<>> THEN "" ELSE ":" \o number[1]) \o suffix

\* the longest list of values of one key of a mapping
MaxValues == 3

\* key-to-value-list mappings: every list of up to MaxValues values for
\* every set of keys
KeyNames == {"a", "b"}
ValueNames == {"x", "y"}
ValueLists == UNION { [1..n -> ValueNames] : n \in 0..MaxValues }
ArrayMaps == UNION { [K -> ValueLists] : K \in SUBSET KeyNames }

\* requests the host hands to newRequestData: none, a posted form, and a
\* request one of whose headers the host has left without values
EmptiedHeaderRequest ==
    [SomeRequest EXCEPT !.Header = [k \in {"Accept", "X-Trace"} |->
                                      IF k = "Accept" THEN <<"text/html">> ELSE <<>>]]
SnapshotRequests == Requests \cup {EmptiedHeaderRequest}

\* a call of a function that returns, on record
Returns(op, arg, returned) ==
    /\ calls' = <<[op |-> op, arg |-> arg, panicked |-> FALSE, returned |-> <<returned>>]>>
    /\ UNCHANGED <<pc, panicValue>>

\* a call of a function that panics, on record: the panic is in flight on
\* the caller
Panics(op, arg, value) ==
    /\ calls' = <<[op |-> op, arg |-> arg, panicked |-> TRUE, returned |-> <<>>]>>
    /\ pc' = "crashed"
    /\ panicValue' = value

\* packageName, methodName := extractPackageName(line)
CallExtractPackageName ==
    /\ pc = "idle" /\ calls = <<>>
    /\ \E path \in ModulePaths, first \in FirstSegments, after \in MethodTexts :
         LET line == SymbolLine(path, first, after)
         IN  Returns("extractPackageName", line, extractPackageName(line))
    /\ UNCHANGED <<c, lastNew, raygunEndpoint, ret, subs, cores, stdout, logOut,
                   handlers, parsing, heap>>

\* lineNumber, fileName := extractLineNumberAndFile(line)
CallExtractLineNumberAndFile ==
    /\ pc = "idle" /\ calls = <<>>
    /\ \E dir \in LocationDirs, file \in FileNames, number \in NumberTexts,
          suffix \in Suffixes :
         LET line == LocationLine(dir, file, number, suffix)
         IN  Returns("extractLineNumberAndFile", line, extractLineNumberAndFile(line))
    /\ UNCHANGED <<c, lastNew, raygunEndpoint, ret, subs, cores, stdout, logOut,
                   handlers, parsing, heap>>

\* arrayMapToStringMap(arrayMap)
CallArrayMapToStringMap ==
    /\ pc = "idle" /\ calls = <<>>
    /\ \E arrayMap \in ArrayMaps :
         IF arrayMapToStringMapPanics(arrayMap)
         THEN Panics("arrayMapToStringMap", arrayMap, IndexPanic)
         ELSE Returns("arrayMapToStringMap", arrayMap, arrayMapToStringMap(arrayMap))
    /\ UNCHANGED <<c, lastNew, raygunEndpoint, ret, subs, cores, stdout, logOut,
                   handlers, parsing, heap>>

\* newRequestData(r): r.ParseForm() runs before the mappings are flattened
CallNewRequestData ==
    /\ pc = "idle" /\ calls = <<>>
    /\ \E r \in SnapshotRequests :
         /\ heap' = newRequestDataEffect(heap, r)
         /\ IF newRequestDataPanics(r)
            THEN Panics("newRequestData", r, IndexPanic)
            ELSE Returns("newRequestData", r, newRequestData(r))
    /\ UNCHANGED <<c, lastNew, raygunEndpoint, ret, subs, cores, stdout, logOut,
                   handlers, parsing>>

NextFunctions ==
    \/ CallExtractPackageName
    \/ CallExtractLineNumberAndFile
    \/ CallArrayMapToStringMap
    \/ CallNewRequestData

SpecFunctions == InitReport /\ [][NextFunctions]_vars

----------------------------------------------------------------------------
(* Properties *)

CoresOf(s) == {i \in DOMAIN cores : cores[i].sub = s}
Unserializable(post) == post.Details.UserCustomData = ChanData
IsResponse(outcome) == outcome.err = NilError /\ outcome.StatusCode \in StatusCodes

\* C1: New returns no client and a non-nil error exactly when appName or
\* apiKey is empty; otherwise it returns a client holding that appName and
\* apiKey, and a nil error.
NewRejectsExactlyEmpty ==
    lastNew.called =>
      /\ (lastNew.c = NoClient) <=> (lastNew.appName = "" \/ lastNew.apiKey = "")
      /\ (lastNew.err # NilError) <=> (lastNew.appName = "" \/ lastNew.apiKey = "")
      /\ lastNew.c # NoClient =>
           /\ lastNew.c.appName = lastNew.appName
           /\ lastNew.c.apiKey = lastNew.apiKey

NewRejectedEmptyApiKey ==
    /\ lastNew.called
    /\ lastNew.appName # ""
    /\ lastNew.apiKey = ""
    /\ lastNew.c = NoClient
    /\ lastNew.err # NilError

\* C2: whatever value the panic carries, no panic propagates past the
\* deferred HandleError.
NoPanicPastHandleError == pc # "crashed"

\* C3: a deferred HandleError that recovers a panic makes exactly one call
\* of Submit, with a payload whose error message is the panic's string or
\* the panic's error message.
RecoveredPanicIsSubmittedOnce ==
    [][(pc = "deferred" /\ pc' # "deferred" /\ panicValue # NoPanic) =>
         /\ Len(subs') = Len(subs) + 1
         /\ subs'[Len(subs')].op = "HandleError"
         /\ panicValue.type \in {"error", "string"} =>
              subs'[Len(subs')].post.Details.Error.Message = panicValue.val]_vars

\* C4: with no panic in flight HandleError returns nil, assembles and
\* submits nothing, prints and logs nothing, and leaves the client as it is.
HandleErrorWithoutPanicIsNoOp ==
    [][(pc = "deferred" /\ pc' # "deferred" /\ panicValue = NoPanic) =>
         /\ ret' = [op |-> "HandleError", err |-> NilError]
         /\ pc' = "idle"
         /\ UNCHANGED <<c, subs, cores, stdout, logOut, raygunEndpoint, panicValue>>]_vars

HandleErrorReturnedWithoutPanic ==
    /\ ret.op = "HandleError"
    /\ subs = <<>>
    /\ c # NoClient
    /\ c.logToStdOut
    /\ pc = "idle"

\* C5: a Submit call made in silent mode has returned nil and no submitCore
\* runs for it, on the caller or on a goroutine, whatever the payload and
\* the asynchronous flag.
SilentSubmitNeverSends ==
    \A s \in DOMAIN subs :
      subs[s].silent =>
        /\ subs[s].returned
        /\ subs[s].ret = NilError
        /\ CoresOf(s) = {}

SilentAsynchronousUnserializableSubmit ==
    \E s \in DOMAIN subs :
      /\ subs[s].silent
      /\ subs[s].asynchronous
      /\ Unserializable(subs[s].post)
      /\ subs[s].returned

\* C6: in non-silent synchronous mode, once the remote endpoint has
\* answered, Submit has returned nil if and only if the status is 202, and
\* otherwise an error whose message carries the status.
SynchronousSuccessIffAccepted ==
    \A i \in DOMAIN cores :
      (cores[i].thread = "caller" /\ cores[i].pc = "done" /\ IsResponse(cores[i].outcome)) =>
        LET s == subs[cores[i].sub]
            code == cores[i].outcome.StatusCode
        IN  /\ s.returned
            /\ (s.ret = NilError) <=> (code = 202)
            /\ code # 202 =>
                 s.ret = errors_New("Unexpected answer from Raygun " \o ToString(code))

SynchronousSubmitAnswered200 ==
    \E i \in DOMAIN cores :
      /\ cores[i].thread = "caller"
      /\ cores[i].pc = "done"
      /\ cores[i].outcome.err = NilError
      /\ cores[i].outcome.StatusCode = 200
      /\ subs[cores[i].sub].ret # NilError

\* C7: in non-silent synchronous mode, when serialization or the transport
\* fails, the call returns a non-nil error to the caller (the caller goes
\* on, no panic), and after a serialization failure no request was sent.
SynchronousFailureIsReturned ==
    /\ [](\A i \in DOMAIN cores :
            (cores[i].thread = "caller" /\ cores[i].pc = "done") =>
              /\ Unserializable(cores[i].post) =>
                   /\ cores[i].sent = <<>>
                   /\ subs[cores[i].sub].returned
                   /\ subs[cores[i].sub].ret # NilError
              /\ cores[i].outcome.err # NilError =>
                   /\ subs[cores[i].sub].returned
                   /\ subs[cores[i].sub].ret # NilError)
    /\ [][\A i \in DOMAIN cores' :
            ( /\ cores'[i].thread = "caller"
              /\ cores'[i].pc = "done"
              /\ (i \in DOMAIN cores => cores[i].pc # "done")
              /\ (Unserializable(cores'[i].post) \/ cores'[i].outcome.err # NilError) ) =>
              /\ pc' = "idle"
              /\ ret'.err # NilError
              /\ ret'.err = subs'[cores'[i].sub].ret]_vars

SynchronousSerializationFailed ==
    \E i \in DOMAIN cores :
      /\ cores[i].thread = "caller"
      /\ cores[i].pc = "done"
      /\ Unserializable(cores[i].post)
      /\ subs[cores[i].sub].ret # NilError
      /\ pc = "idle"

\* C8: for each Submit call at most one POST is sent, to
\* raygunEndpoint/entries with the header X-ApiKey set to the client's
\* apiKey, and a submission that has ended sends nothing more.
AtMostOnePostPerSubmit ==
    /\ [](\A s \in DOMAIN subs :
            /\ Cardinality(CoresOf(s)) <= 1
            /\ \A i \in CoresOf(s) :
                 /\ Len(cores[i].sent) <= 1
                 /\ \A k \in DOMAIN cores[i].sent :
                      /\ cores[i].sent[k].Method = "POST"
                      /\ cores[i].sent[k].URL = raygunEndpoint \o "/entries"
                      /\ cores[i].sent[k].Header = <<<<"X-ApiKey", c.apiKey>>>>)
    /\ [][\A i \in DOMAIN cores :
            cores[i].pc = "done" =>
              /\ i \in DOMAIN cores'
              /\ cores'[i] = cores[i]
              /\ CoresOf(cores[i].sub)' = CoresOf(cores[i].sub)]_vars

FailedDeliverySentOnePost ==
    \E i \in DOMAIN cores :
      /\ cores[i].pc = "done"
      /\ cores[i].outcome.StatusCode = 500
      /\ cores[i].result # NilError
      /\ Len(cores[i].sent) = 1

\* C9: a Submit call made in non-silent asynchronous mode has started
\* exactly one goroutine running submitCore and has returned nil, wherever
\* that goroutine is and whatever it got from the remote endpoint.
AsynchronousSubmitReturnsAtOnce ==
    \A s \in DOMAIN subs :
      (~subs[s].silent /\ subs[s].asynchronous) =>
        /\ subs[s].returned
        /\ subs[s].ret = NilError
        /\ Cardinality(CoresOf(s)) = 1
        /\ \A i \in CoresOf(s) : cores[i].thread = "goroutine"

AsynchronousSubmitReturnedBeforeAnswer ==
    \E s \in DOMAIN subs :
      /\ ~subs[s].silent
      /\ subs[s].asynchronous
      /\ subs[s].returned
      /\ pc = "idle"
      /\ \E i \in CoresOf(s) : cores[i].pc = "awaiting"

\* C10: a delivery error of a submission running on a goroutine is not
\* returned to the caller of Submit, and it is logged when logging is
\* enabled.
AsynchronousErrorIsLogged ==
    [][\A i \in DOMAIN cores :
         ( /\ cores[i].thread = "goroutine"
           /\ cores[i].pc # "done"
           /\ cores'[i].pc = "done"
           /\ cores'[i].result # NilError
           /\ c.logToStdOut ) =>
           /\ subs'[cores[i].sub].ret = NilError
           /\ \E k \in DOMAIN logOut' :
                /\ k > Len(logOut)
                /\ logOut'[k] = ErrorText(cores'[i].result)]_vars
----------------------------------------------------------------------------
(* Properties of Parse *)

\* the lines of a body that are not blank
NonBlank(lines) == SelectSeq(lines, LAMBDA l : l # BlankLine)

\* the body is N well-formed pairs of a symbol line and a location line,
\* with blank lines anywhere among them
WellFormedPairs(lines) ==
    LET nb == NonBlank(lines)
    IN  /\ Len(nb) % 2 = 0
        /\ \A i \in 1..Len(nb) :
             IF i % 2 = 1 THEN nb[i] \in SymbolLines ELSE nb[i] \in LocationLines

\* the frame of one pair
FrameOf(symbolLine, locationLine) ==
    StackTraceElement(extractLineNumberAndFile(locationLine).lineNumber,
                      extractPackageName(symbolLine).packageName,
                      extractLineNumberAndFile(locationLine).fileName,
                      extractPackageName(symbolLine).methodName)

\* C20: for a dump made of a header line and N well-formed symbol/location
\* pairs, with blank lines anywhere among them, Parse adds exactly N
\* frames, in input order.
ParseAddsOneFramePerPair ==
    (parsing.done /\ WellFormedPairs(parsing.lines)) =>
        LET nb == NonBlank(parsing.lines)
        IN  /\ Len(parsing.stack) * 2 = Len(nb)
            /\ \A i \in 1..Len(parsing.stack) :
                 parsing.stack[i] = FrameOf(nb[2 * i - 1], nb[2 * i])

\* C26: blank lines never break the alignment of the pairs: wherever blank
\* lines stand in a dump of well-formed pairs (behind the header, between
\* two pairs, between the two lines of a pair, at the end), every frame
\* that Parse adds has the packageName and methodName of the symbol line
\* and the fileName and lineNumber of the location line of one pair.
EveryFrameIsOfOnePair ==
    (parsing.done /\ WellFormedPairs(parsing.lines)) =>
        LET nb == NonBlank(parsing.lines)
        IN  \A i \in DOMAIN parsing.stack :
              \E p \in 1..(Len(nb) \div 2) :
                parsing.stack[i] = FrameOf(nb[2 * p - 1], nb[2 * p])

----------------------------------------------------------------------------
(* Properties of reports *)

\* the entry points that assemble a payload, and their calls on record
ReportOps == {"HandleError", "CreateError", "SendError"}
ReportCalls == { i \in DOMAIN calls : calls[i].op \in ReportOps }

\* a step that makes a report, and the record of that report
Reports == Len(calls') = Len(calls) + 1 /\ calls'[Len(calls')].op \in ReportOps
LastReport == calls'[Len(calls')]

\* C15: the payload's grouping key is the callback's return value exactly
\* when a callback is configured and returns a non-empty string; with no
\* callback, or with one that returns the empty string, it is absent.
GroupingKeyIffCallbackReturnsKey ==
    [][Reports =>
         LET fn == c.context.GetCustomGroupingKey
             key == IF fn = NilFunc
                    THEN ""
                    ELSE CallGroupingKey(fn, LastReport.error, LastReport.post)
         IN  LastReport.post.Details.GroupingKey =
                 IF key # "" THEN <<key>> ELSE <<>>]_vars

GroupingKeyCallbackReturnedEmpty ==
    \E i \in ReportCalls :
      /\ calls[i].callbacks # <<>>
      /\ calls[i].post.Details.GroupingKey = <<>>

\* C25: in every report of a client with a grouping-key callback the
\* callback is called exactly once, with the payload as newPostData has
\* assembled it, in which no grouping key is set, and before any step of
\* the submission of that report: nothing is printed and no execution of
\* submitCore (on the caller or detached) is started when it is called.
CallbackCalledOnceBeforeSubmission ==
    \A i \in ReportCalls :
      c.context.GetCustomGroupingKey # NilFunc =>
        /\ Len(calls[i].callbacks) = 1
        /\ calls[i].callbacks[1].postData.Details.GroupingKey = <<>>
        /\ calls[i].callbacks[1].postData =
             [calls[i].post EXCEPT !.Details.GroupingKey = <<>>]
        /\ calls[i].callbacks[1].printed = 0
        /\ calls[i].callbacks[1].started = 0

\* a report whose callback returned a key has been handed to the transport
CallbackCalledBeforePost ==
    \E i \in ReportCalls :
      /\ Len(calls[i].callbacks) = 1
      /\ calls[i].post.Details.GroupingKey # <<>>
      /\ \E j \in DOMAIN cores : cores[j].post = calls[i].post /\ cores[j].sent # <<>>

\* C28 as it was stated: the request of the client is only read:
\* assembling a payload (in HandleError, CreateError or SendError) leaves
\* the request as it was, its parsed form fields and its unread body
\* included.
ReportLeavesRequestUnchanged ==
    [][Reports => /\ heap'.parsed = heap.parsed
                  /\ heap'.bodyRead = heap.bodyRead
                  /\ c'.context.Request = c.context.Request]_vars

\* C28: assembling a payload (in HandleError, CreateError or SendError)
\* runs ParseForm on the request of the client: the form fields of a
\* request that has not been parsed are filled, and when that request is a
\* POST, PUT or PATCH of a form its body is read.  A request that has been
\* parsed, every other request and the reference of the client to its
\* request are left as they were.
ReportParsesFormOfRequest ==
    [][Reports =>
         LET r == c.context.Request
         IN  /\ c'.context.Request = r
             /\ IF r = NilRequest \/ r \in heap.parsed
                THEN /\ heap'.parsed = heap.parsed
                     /\ heap'.bodyRead = heap.bodyRead
                ELSE /\ heap'.parsed = heap.parsed \cup {r}
                     /\ heap'.bodyRead =
                          IF r.Method \in {"POST", "PUT", "PATCH"}
                             /\ "Content-Type" \in DOMAIN r.Header
                             /\ r.Header["Content-Type"] = <<FormContentType>>
                          THEN heap.bodyRead \cup {r}
                          ELSE heap.bodyRead]_vars

\* a report of a client whose request is a posted form is on record, and
\* the body of that request is read
ReportReadBodyOfPostedForm ==
    /\ ReportCalls # {}
    /\ c.context.Request = SomeRequest
    /\ SomeRequest \in heap.bodyRead

\* C16: the grouping-key callback is passed the original error: the
\* recovered error (HandleError), the error made from the message
\* (CreateError), the very error value handed to SendError.
CallbackGetsOriginalError ==
    \A i \in ReportCalls :
      \A j \in DOMAIN calls[i].callbacks :
        calls[i].callbacks[j].err = calls[i].error

\* the calls of SendError on record
SendErrorCalls == { i \in DOMAIN calls : calls[i].op = "SendError" }

\* C17 as stated: SendError reports with the error's own stack whenever the
\* error has the Stack() capability, whatever its type, and with the current
\* stack otherwise; the payload's message is the error's message.
SendErrorUsesStackOfAnyCarrier ==
    \A i \in SendErrorCalls :
      /\ calls[i].post.Details.Error.StackTrace =
             IF HasStackMethod(calls[i].error)
             THEN Parse(ErrorStack(calls[i].error), <<>>)
             ELSE currentStack("SendError")
      /\ calls[i].post.Details.Error.Message = ErrorText(calls[i].error)

\* C17: SendError reports with the error's own stack exactly when the error
\* is a *goerrors.Error, and with the current stack for every other error,
\* also one of another type that has a Stack() method; the payload's
\* message is the error's message.
SendErrorUsesStackOfGoErrorsOnly ==
    \A i \in SendErrorCalls :
      /\ calls[i].post.Details.Error.StackTrace =
             IF ErrorType(calls[i].error) = GoErrorsType
             THEN Parse(ErrorStack(calls[i].error), <<>>)
             ELSE currentStack("SendError")
      /\ calls[i].post.Details.Error.Message = ErrorText(calls[i].error)

SendErrorOfTracedHostError ==
    \E i \in SendErrorCalls :
      /\ HasStackMethod(calls[i].error)
      /\ ErrorType(calls[i].error) # GoErrorsType
      /\ calls[i].post.Details.Error.StackTrace = currentStack("SendError")

\* C18: a payload assembled for a report carries the context of the client
\* at the time of the report (version, tags, custom data, user, identifier),
\* the empty request snapshot when no request is set, and the message of
\* the reported error.
PayloadCarriesContextAtReport ==
    [][Reports =>
         LET details == LastReport.post.Details
         IN  /\ details.Version = c.context.Version
             /\ details.Tags = c.context.Tags
             /\ details.UserCustomData = c.context.CustomData
             /\ details.User.Identifier = c.context.User
             /\ details.Context.Identifier = c.context.identifier
             /\ c.context.Request = NilRequest => details.Request = EmptyRequestData
             /\ details.Error.Message = ErrorText(LastReport.error)
             /\ LastReport.op = "CreateError" => details.Error.Message \in Messages]_vars

CreateErrorOfConfiguredClient ==
    /\ ReportCalls # {}
    /\ calls[1].op = "CreateError"
    /\ calls[1].post.Details.Version = "1.0.0"
    /\ calls[1].post.Details.Tags = <<"web", "eu">>
    /\ calls[1].post.Details.User.Identifier = "user-1"
    /\ calls[1].post.Details.Request = EmptyRequestData
    /\ calls[1].post.Details.Error.Message = "something went wrong"

\* the reports whose stack is the captured current stack
CapturingCalls ==
    { i \in ReportCalls :
        \/ calls[i].op \in {"HandleError", "CreateError"}
        \/ calls[i].op = "SendError" /\ ErrorType(calls[i].error) # GoErrorsType }

LibraryPackage == "github.com/MindscapeHQ/raygun4go"
IsLibraryFrame(f) == f.PackageName = LibraryPackage
\* the frame of the panic call of the Go runtime
IsPanicFrame(f) == f.PackageName = "" /\ f.FileName = "panic.go"
IsUserFrame(f) == ~IsLibraryFrame(f) /\ ~IsPanicFrame(f)

\* C19 as stated: the captured stack of a report has no frame of the
\* library and its first frame is the user's code.
CapturedStackStartsWithUserCode ==
    \A i \in CapturingCalls :
      LET st == calls[i].post.Details.Error.StackTrace
      IN  /\ \A k \in DOMAIN st : ~IsLibraryFrame(st[k])
          /\ st # <<>>
          /\ IsUserFrame(st[1])

\* C19: the captured stack of a report has no frame of the library; its
\* first frame is the user's code for CreateError and SendError, and for
\* HandleError after a panic it is the runtime's panic call, followed by
\* the user's code.
CapturedStackOmitsLibraryFrames ==
    \A i \in CapturingCalls :
      LET st == calls[i].post.Details.Error.StackTrace
      IN  /\ \A k \in DOMAIN st : ~IsLibraryFrame(st[k])
          /\ st # <<>>
          /\ IF calls[i].op = "HandleError"
             THEN Len(st) >= 2 /\ IsPanicFrame(st[1]) /\ IsUserFrame(st[2])
             ELSE IsUserFrame(st[1])

HandleErrorStackStartsWithPanicFrame ==
    \E i \in CapturingCalls :
      /\ calls[i].op = "HandleError"
      /\ IsPanicFrame(calls[i].post.Details.Error.StackTrace[1])

----------------------------------------------------------------------------
(* Properties of clones and setters *)

\* a step that calls a setter, and the record of that call
CallsSetter == Len(calls') = Len(calls) + 1 /\ calls'[Len(calls')].op \in Setters
LastCall == calls'[Len(calls')]

\* the client of a holder after the step
ClientOfNext(holder) ==
    IF holder = 0 \/ handlers'[holder].ref = OriginalRef
    THEN c'
    ELSE handlers'[holder].cell

\* the fields of a client
FieldNames ==
    { "appName", "apiKey", "silent", "logToStdOut", "asynchronous", "Request",
      "Version", "Tags", "CustomData", "User", "GetCustomGroupingKey", "identifier" }
Field(client, f) ==
    CASE f = "appName" -> client.appName
      [] f = "apiKey" -> client.apiKey
      [] f = "silent" -> client.silent
      [] f = "logToStdOut" -> client.logToStdOut
      [] f = "asynchronous" -> client.asynchronous
      [] f = "Request" -> client.context.Request
      [] f = "Version" -> client.context.Version
      [] f = "Tags" -> client.context.Tags
      [] f = "CustomData" -> client.context.CustomData
      [] f = "User" -> client.context.User
      [] f = "GetCustomGroupingKey" -> client.context.GetCustomGroupingKey
      [] f = "identifier" -> client.context.identifier

\* C11: after clone := c.Clone(), a setter call on one of the two clients
\* leaves every field of the other unchanged, in both directions.
SetterLeavesOtherClientsUnchanged ==
    [][CallsSetter =>
         \A holder \in Holders \ {LastCall.by} :
           \A f \in FieldNames :
             Field(ClientOfNext(holder), f) = Field(ClientOf(holder), f)]_vars

SetterCalledOnCloneOnly ==
    /\ Len(calls) = 2
    /\ calls[1].op = "Clone"
    /\ calls[2].op = "Tags"
    /\ calls[2].by = calls[1].by
    /\ ClientAt(calls[1].by).context.Tags = <<"web", "eu">>
    /\ c.context.Tags = <<>>

\* the clients there are: the client made by New and the clones
ClientRefs ==
    (IF c = NoClient THEN {} ELSE {OriginalRef})
        \cup { h \in Handlers : handlers[h].cell # NoClient }
TagsAt(ref) ==
    IF ref = OriginalRef THEN c.context.Tags ELSE handlers[ref].cell.context.Tags
TagsAtNext(ref) ==
    IF ref = OriginalRef THEN c'.context.Tags ELSE handlers'[ref].cell.context.Tags
ClonesClient ==
    Len(calls') = Len(calls) + 1 /\ calls'[Len(calls')].op = "Clone"

\* C24 as it was stated: Clone copies the mutable fields of the context
\* deeply: a change of an element of the tags of one client in place is
\* not seen through another client, while the grouping-key callback of the
\* clone is that of the original.
TagWrittenInPlaceIsSeenByOneClient ==
    [][/\ heap'.tags # heap.tags =>
            Cardinality({ ref \in ClientRefs : TagsAtNext(ref) # TagsAt(ref) }) <= 1
       /\ ClonesClient =>
            \A h \in Handlers :
              handlers'[h].cell # handlers[h].cell =>
                handlers'[h].cell.context.GetCustomGroupingKey =
                    c.context.GetCustomGroupingKey]_vars

\* C24: Clone copies the context field by field and copies nothing that a
\* field refers to: the tags, the custom data and the grouping-key callback
\* of the clone are those of the original, and a change of an element of
\* the tags in place is seen through every client whose Tags are the
\* changed slice, the original and its clones alike, and through no other
\* client.
TagWrittenInPlaceIsSeenBySharers ==
    [][/\ heap'.tags # heap.tags =>
            \A ref \in ClientRefs :
              TagsAtNext(ref) = IF TagsAt(ref) = heap.tags
                                THEN heap'.tags
                                ELSE TagsAt(ref)
       /\ ClonesClient =>
            \A h \in Handlers :
              handlers'[h].cell # handlers[h].cell =>
                /\ handlers'[h].cell.context.Tags = c.context.Tags
                /\ handlers'[h].cell.context.CustomData = c.context.CustomData
                /\ handlers'[h].cell.context.GetCustomGroupingKey =
                       c.context.GetCustomGroupingKey]_vars

\* c.Tags(hostTags); clone := c.Clone(); hostTags[0] = "changed": the
\* change is seen through both clients
TagWrittenAfterCloneSeenByBoth ==
    /\ Len(calls) = 2
    /\ calls[1].op = "Tags" /\ calls[1].on = OriginalRef
    /\ calls[2].op = "Clone"
    /\ c.context.Tags = ChangedTags
    /\ handlers[calls[2].by].cell # NoClient
    /\ handlers[calls[2].by].cell.context.Tags = ChangedTags

\* C14: a setter returns the client it was called on, sets exactly its own
\* field to the argument, replacing the previous value (Tags never
\* appends), and leaves every other field of the client unchanged.
SetterSetsExactlyItsField ==
    [][CallsSetter =>
         /\ LastCall.returned = LastCall.on
         /\ LastCall.on = RefOf(LastCall.by)
         /\ \A f \in FieldNames :
              Field(ClientOfNext(LastCall.by), f) =
                  IF f = SetterField[LastCall.op]
                  THEN LastCall.arg[f]
                  ELSE Field(ClientOf(LastCall.by), f)]_vars

TagsCalledTwice ==
    /\ Len(calls) = 2
    /\ calls[1].op = "Tags" /\ calls[1].arg.Tags = <<"web", "eu">>
    /\ calls[2].op = "Tags" /\ calls[2].arg.Tags = <<"web", "eu">>
    /\ calls[2].by = 0 /\ calls[1].by = 0
    /\ c.context.Tags = <<"web", "eu">>

\* C13: the identifier of the context is set once by New and never changes:
\* after setter calls, reports and Clone calls the client's identifier is
\* the one set at construction, every clone carries the identifier of the
\* client it was cloned from, and every payload carries it.
IdentifierNeverChanges ==
    c # NoClient =>
      /\ c.context.identifier = lastNew.c.context.identifier
      /\ \A h \in Handlers :
           handlers[h].ref # NoRef =>
             ClientAt(h).context.identifier = c.context.identifier
      /\ \A i \in ReportCalls :
           calls[i].post.Details.Context.Identifier = c.context.identifier
      /\ \A i \in DOMAIN subs :
           subs[i].op # "Submit" =>
             subs[i].post.Details.Context.Identifier = c.context.identifier

CloneOfConfiguredClient ==
    \E h \in Handlers :
      /\ handlers[h].ref = h
      /\ c.context.Version = "1.0.0"
      /\ c.context.User = "user-1"
      /\ handlers[h].cell.context.User = "user-1"
      /\ handlers[h].cell.context.identifier = lastNew.c.context.identifier
      /\ handlers[h].cell.context.identifier \in Identifiers

----------------------------------------------------------------------------
(* Properties of concurrent handlers *)

\* C12: when each concurrent handler works on its own clone of the shared
\* client, every payload carries the request and the user set by the same
\* handler, under every interleaving; appName and apiKey of the clones
\* stay those of the original.
HandlerPayloadCarriesOwnContext ==
    \A h \in Handlers :
      /\ handlers[h].report # <<>> =>
           LET details == handlers[h].report[1].core.post.Details
           IN  /\ details.Request.URL = "/handler/" \o ToString(h)
               /\ details.Request = newRequestData(RequestOf(h))
               /\ details.User.Identifier = "user-" \o ToString(h)
      /\ handlers[h].ref # NoRef =>
           /\ ClientAt(h).appName = lastNew.c.appName
           /\ ClientAt(h).apiKey = lastNew.c.apiKey

HandlerReportedWhileOtherConfigured ==
    \E h1, h2 \in Handlers :
      /\ h1 # h2
      /\ handlers[h1].report # <<>>
      /\ handlers[h1].report[1].core.post.Details.User.Identifier = UserOf(h1)
      /\ handlers[h2].pc = "user"
      /\ ClientAt(h2).context.User = UserOf(h2)
      /\ ClientAt(h2).context.Request = RequestOf(h2)

----------------------------------------------------------------------------
(* The functions of the parser *)

\* the calls on record of the function op
CallsOf(op) == { i \in DOMAIN calls : calls[i].op = op }

\* C21: for every location line that has no ":lineNumber" part, or whose
\* text after the colon is no non-negative integer of the 32-bit range (it
\* is no number, is negative or is too large), extractLineNumberAndFile
\* returns, and the lineNumber it returns is 0.
UnparsedLineNumberIsZero ==
    \A dir \in LocationDirs, file \in FileNames, number \in NumberTexts,
       suffix \in Suffixes :
      (number = <<>> \/ number[1] \in UnparsableNumbers) =>
        \A i \in CallsOf("extractLineNumberAndFile") :
          calls[i].arg = LocationLine(dir, file, number, suffix) =>
            /\ ~calls[i].panicked
            /\ calls[i].returned[1].lineNumber = "0"

\* C22: for every symbol line, with rest the text after its last slash: if
\* rest has a dot, packageName is the text before the first dot of rest,
\* after the module path and a slash when the module path is not empty, and
\* methodName is all that follows that dot; if rest has no dot, packageName
\* is empty and methodName is rest.
PackageAndMethodSplitAtFirstDot ==
    \A path \in ModulePaths, first \in FirstSegments, after \in MethodTexts :
      \A i \in CallsOf("extractPackageName") :
        calls[i].arg = SymbolLine(path, first, after) =>
          /\ ~calls[i].panicked
          /\ calls[i].returned[1] =
               IF after = <<>>
               THEN [packageName |-> "", methodName |-> first]
               ELSE [packageName |-> IF path = "" THEN first
                                     ELSE path \o "/" \o first,
                     methodName |-> after[1]]

\* extractPackageName has returned for a line with a module path and with
\* dots in the method
ExtractedPackageBehindModulePath ==
    \E i \in CallsOf("extractPackageName") :
      /\ calls[i].arg = "github.com/a/pkg.(*T).Run(0x1)"
      /\ calls[i].returned[1] =
           [packageName |-> "github.com/a/pkg", methodName |-> "(*T).Run(0x1)"]

\* text has a space; the part of text before its last space
HasSpace(text) == \E i \in 1..Len(text) : SubSeq(text, i, i) = " "
BeforeLastSpace(text) ==
    LET last == CHOOSE i \in 1..Len(text) :
                  /\ SubSeq(text, i, i) = " "
                  /\ \A j \in (i + 1)..Len(text) : SubSeq(text, j, j) # " "
    IN  SubSeq(text, 1, last - 1)

\* C27 as it was stated: a location line without the memory offset gives
\* the fileName and the lineNumber of the same line with " +0xADDR" at its
\* end; the last token is cut off only when it is that suffix, so in both
\* cases fileName is the text between the last slash and the colon.
OffsetSuffixMakesNoDifference ==
    \A dir \in LocationDirs, file \in FileNames, number \in NumberTexts :
      \A i \in CallsOf("extractLineNumberAndFile") :
        /\ calls[i].arg = LocationLine(dir, file, number, NoSuffix) =>
             /\ calls[i].returned[1] =
                  extractLineNumberAndFile(LocationLine(dir, file, number, OffsetSuffix))
             /\ calls[i].returned[1].fileName = file
        /\ calls[i].arg = LocationLine(dir, file, number, OffsetSuffix) =>
             calls[i].returned[1].fileName = file

\* C27: a location line whose file name has no space gives, without the
\* memory offset, the fileName and the lineNumber of the same line with
\* " +0xADDR" at its end, and fileName is the text between the last slash
\* and the colon.  What follows the last space behind the last slash is cut
\* off whatever it is: of a line without the memory offset whose file name
\* has a space, fileName is the file name up to its last space and
\* lineNumber is 0.
OffsetSuffixMakesNoDifferenceWithoutSpace ==
    \A dir \in LocationDirs, file \in FileNames, number \in NumberTexts :
      \A i \in CallsOf("extractLineNumberAndFile") :
        /\ calls[i].arg = LocationLine(dir, file, number, NoSuffix) =>
             IF HasSpace(file)
             THEN calls[i].returned[1] =
                    [lineNumber |-> "0", fileName |-> BeforeLastSpace(file)]
             ELSE /\ calls[i].returned[1] =
                       extractLineNumberAndFile(LocationLine(dir, file, number, OffsetSuffix))
                  /\ calls[i].returned[1].fileName = file
        /\ calls[i].arg = LocationLine(dir, file, number, OffsetSuffix) =>
             calls[i].returned[1].fileName = file

\* extractLineNumberAndFile has returned for a line without the memory
\* offset
ExtractedLocationWithoutOffset ==
    \E i \in CallsOf("extractLineNumberAndFile") :
      /\ calls[i].arg = "\t/home/u/main.go:42"
      /\ calls[i].returned[1] = [lineNumber |-> "42", fileName |-> "main.go"]

----------------------------------------------------------------------------
(* The snapshot of a request *)

FlatteningNeverPanics ==
    /\ \A i \in CallsOf("arrayMapToStringMap") : ~calls[i].panicked
    /\ \A i \in CallsOf("newRequestData") : ~calls[i].panicked
    /\ (\E i \in DOMAIN calls : calls[i].op \in {"arrayMapToStringMap", "newRequestData"})
         => pc # "crashed"

----------------------------------------------------------------------------
(* Detached submissions *)

\* the executions of submitCore on a goroutine that have not returned
Detached == { i \in DOMAIN cores : cores[i].thread = "goroutine" /\ cores[i].pc # "done" }

\* C29: a detached submission uses no mutable state that it shares with
\* the caller: a setter call on the client, made after Submit has returned
\* and while the submission is under way, changes neither the payload that
\* the submission sends nor whether it logs its outcome, whatever the
\* transport answers.
SetterLeavesDetachedSubmissionUnchanged ==
    [][(Detached # {} /\ c' # c) =>
         \A i \in Detached :
           /\ cores'[i].post = cores[i].post
           /\ cores[i].pc = "started" =>
                submitCoreSend(c', raygunEndpoint, cores[i].post).sent =
                    submitCoreSend(c, raygunEndpoint, cores[i].post).sent
           /\ \A outcome \in DoOutcomes :
                submitCoreFinish(c', outcome).log = submitCoreFinish(c, outcome).log]_vars

====
